---------------------------- MODULE Spec2Model ----------------------------
(***************************************************************************)
(* Model of youtube_notion_summarizer.py (and the segmenter copy in        *)
(* append_translated_transcript.py): the transcript/summary-to-block       *)
(* rendering and the archive-then-append replacement loop of main().       *)
(*                                                                         *)
(* A text is a sequence of one-character strings.  CJK characters of the   *)
(* source are written as ASCII tokens, one token per character, so that    *)
(* len() of the source and Len() of the model agree:                       *)
(*   "nei","rong","zhai","yao"  = the heading marker                       *)
(*   "zong","jie"               = the two characters of the conclusion     *)
(*                                marker                                   *)
(*   "fcolon"  = full-width colon    ":" = half-width colon                *)
(*   "dun"     = ideographic comma   "fdot" = full-width full stop         *)
(* Indices passed to the string helpers are Python's (0-based).            *)
(***************************************************************************)
EXTENDS Integers, Sequences, FiniteSets, TLC

\* -------------------------------------------------------------- bounds
\* Number of candidate pages the search returns for the batch.
NumDocs == 2
\* Largest limit_pages given to main().
MaxLimit == 2
\* Number of sequential invocations of main().
MaxRuns == 2
\* Longest input text enumerated for md_to_rich_text.
MaxMdLen == 5
\* Longest input text enumerated for the segmenter, and its largest chunk size.
MaxSegLen == 6
MaxChunk == 4
\* Longest block list enumerated for has_summary_heading.
MaxBlocks == 3
\* Longest transcript enumerated for write_summary_and_transcript.
MaxTranscriptLen == 5
\* Most lines in an enumerated summary.
MaxLines == 3
\* longest single summary line enumerated character by character
MaxLineLen == 4

\* --------------------------------------------------- program constants
\* MAX_TRANSCRIPT_CHARS = 60000 and CHUNK_SIZE = 1500 in the source; page_size
\* = 100 in every blocks.children.list call.  They are scaled down, keeping
\* their order relative to the fixed strings of the program (the heading
\* marker has 4 characters, the conclusion label 3), so that texts on both
\* sides of each ceiling can be enumerated.
MAX_TRANSCRIPT_CHARS == 6
CHUNK_SIZE == 4
PAGE_SIZE == 2

\* ------------------------------------------------------ string helpers
Min(a, b) == IF a < b THEN a ELSE b

\* Python whitespace, as str.strip() and str.lstrip() see it.
WS == {" ", "\n", "\t"}

\* t[i:j]
Slice(t, i, j) == SubSeq(t, i + 1, Min(j, Len(t)))

\* t.startswith(p, i)
StartsWithAt(t, p, i) ==
    /\ i + Len(p) <= Len(t)
    /\ SubSeq(t, i + 1, i + Len(p)) = p

StartsWith(t, p) == StartsWithAt(t, p, 0)

\* t.find(p, i): the lowest index >= i at which p occurs, or -1
RECURSIVE Find(_, _, _)
Find(t, p, i) ==
    IF i + Len(p) > Len(t) THEN -1
    ELSE IF StartsWithAt(t, p, i) THEN i
    ELSE Find(t, p, i + 1)

\* p in t
Contains(t, p) == Find(t, p, 0) # -1

RECURSIVE LStrip(_)
LStrip(t) == IF t # << >> /\ Head(t) \in WS THEN LStrip(Tail(t)) ELSE t

RECURSIVE RStrip(_)
RStrip(t) ==
    IF t # << >> /\ t[Len(t)] \in WS THEN RStrip(SubSeq(t, 1, Len(t) - 1)) ELSE t

Strip(t) == LStrip(RStrip(t))

\* t.split(sep): every piece, empty ones included
RECURSIVE Split(_, _)
Split(t, sep) ==
    LET j == Find(t, sep, 0)
    IN  IF j = -1 THEN << t >>
        ELSE << Slice(t, 0, j) >> \o Split(Slice(t, j + Len(sep), Len(t)), sep)

\* t.split(sep, 1) when sep occurs in t
Split1(t, sep) ==
    LET j == Find(t, sep, 0)
    IN  << Slice(t, 0, j), Slice(t, j + Len(sep), Len(t)) >>

\* t.splitlines(): as split on a line break, without a trailing empty piece
SplitLines(t) ==
    LET ps == Split(t, << "\n" >>)
    IN  IF ps[Len(ps)] = << >> THEN SubSeq(ps, 1, Len(ps) - 1) ELSE ps

\* sep.join(parts)
RECURSIVE Join(_, _)
Join(sep, parts) ==
    IF parts = << >> THEN << >>
    ELSE IF Len(parts) = 1 THEN parts[1]
    ELSE parts[1] \o sep \o Join(sep, Tail(parts))

\* "".join(parts)
RECURSIVE Concat(_)
Concat(parts) == IF parts = << >> THEN << >> ELSE Head(parts) \o Concat(Tail(parts))

RECURSIVE FlattenSeq(_)
FlattenSeq(ss) == IF ss = << >> THEN << >> ELSE Head(ss) \o FlattenSeq(Tail(ss))

NonEmpty(t) == t # << >>

\* Every sequence over S of length at most n.
SeqsUpTo(S, n) == UNION {[1 .. k -> S] : k \in 0 .. n}

\* ------------------------------------------------- fixed program texts
HEADING_MARKER == << "nei", "rong", "zhai", "yao" >>
CONCLUSION_FULL == << "zong", "jie", "fcolon" >>
CONCLUSION_HALF == << "zong", "jie", ":" >>
DELIM == << "*", "*" >>

\* ------------------------------------------------------ md_to_rich_text
\* A span is the dict {"text": {"content": ..}, "annotations": {"bold": ..}};
\* a span built without annotations is rendered with bold = false.
Span(content, bold) == [content |-> content, bold |-> bold]

RECURSIVE md_loop(_, _, _, _)
md_loop(text, i, bold, parts) ==
    IF i >= Len(text) THEN parts
    ELSE IF StartsWithAt(text, DELIM, i) THEN md_loop(text, i + 2, ~bold, parts)
    ELSE LET j == Find(text, DELIM, i)
             segment == IF j = -1 THEN Slice(text, i, Len(text)) ELSE Slice(text, i, j)
             ni == IF j = -1 THEN Len(text) ELSE j
         IN  md_loop(text, ni, bold,
                     IF segment # << >> THEN Append(parts, Span(segment, bold))
                     ELSE parts)

md_to_rich_text(text) ==
    LET parts == md_loop(text, 0, FALSE, << >>)
    IN  IF parts = << >> THEN << Span(text, FALSE) >> ELSE parts

\* The text a block's rich_text carries.
PlainText(rich_text) == Concat([ix \in DOMAIN rich_text |-> LET r == rich_text[ix] IN r.content])

\* ------------------------------------------------ build_paragraph_blocks
Block(type, rich_text) == [type |-> type, rich_text |-> rich_text]

\* [p.strip() for p in text.split("\n\n") if p.strip()]
Paragraphs(text) ==
    SelectSeq((LET xs == Split(text, << "\n", "\n" >>) IN [ix \in DOMAIN xs |-> Strip(xs[ix])]), NonEmpty)

\* the while loop over one paragraph: para[start : start + n], start += n
RECURSIVE chunk_loop(_, _, _, _)
chunk_loop(para, start, n, chunks) ==
    IF start < Len(para)
    THEN chunk_loop(para, start + n, n, Append(chunks, Slice(para, start, start + n)))
    ELSE chunks

\* Segment with the slicing run over the paragraphs joined together, so that
\* a chunk can hold the end of one paragraph and the start of the next.
Segment_merged(text, n) ==
    IF text = << >> THEN << >>
    ELSE chunk_loop(Concat(Paragraphs(text)), 0, n, << >>)

\* The chunks both build_paragraph_blocks emit, in order, before they are
\* wrapped into blocks.
Segment(text, n) ==
    IF text = << >> THEN << >>
    ELSE FlattenSeq((LET xs == Paragraphs(text) IN [ix \in DOMAIN xs |-> LET para == xs[ix] IN chunk_loop(para, 0, n, << >>)]))

\* youtube_notion_summarizer.py
build_paragraph_blocks(text) ==
    (LET xs == Segment(text, CHUNK_SIZE) IN [ix \in DOMAIN xs |-> LET chunk == xs[ix] IN Block("paragraph", md_to_rich_text(chunk))])

\* append_translated_transcript.py
translated_build_paragraph_blocks(text, chunk_size) ==
    (LET xs == Segment(text, chunk_size) IN [ix \in DOMAIN xs |-> LET chunk == xs[ix] IN Block("paragraph", << Span(chunk, FALSE) >>)])


\* -------------------------------------------------- build_summary_blocks
DIGITS == {"0", "1", "2", "3", "4", "5", "6", "7", "8", "9"}

\* t.isdigit(): non-empty and digits only
IsDigit(t) == t # << >> /\ \A k \in 1 .. Len(t) : t[k] \in DIGITS

IsConclusionLine(ln) == StartsWith(ln, CONCLUSION_FULL) \/ StartsWith(ln, CONCLUSION_HALF)

\* lines = [ln.strip() for ln in summary_text.splitlines() if ln.strip()]
SummaryLines(summary_text) ==
    SelectSeq((LET xs == SplitLines(summary_text) IN [ix \in DOMAIN xs |-> Strip(xs[ix])]), NonEmpty)

\* the loop with a switch that a later bullet line turns back
RECURSIVE classify_loop_two_way(_, _, _, _, _)
classify_loop_two_way(lines, k, in_summary, bullet_lines, summary_lines) ==
    IF k > Len(lines) THEN << bullet_lines, summary_lines >>
    ELSE LET ln == lines[k]
         IN  IF IsConclusionLine(ln)
             THEN classify_loop_two_way(lines, k + 1, TRUE, bullet_lines, Append(summary_lines, ln))
             ELSE IF ~in_summary \/ StartsWith(ln, << "-", " " >>)
             THEN classify_loop_two_way(lines, k + 1, FALSE, Append(bullet_lines, ln), summary_lines)
             ELSE classify_loop_two_way(lines, k + 1, in_summary, bullet_lines, Append(summary_lines, ln))

\* The loop that splits the lines into bullet_lines and summary_lines; the
\* result is the pair << bullet_lines, summary_lines >>.
RECURSIVE classify_loop(_, _, _, _, _)
classify_loop(lines, k, in_summary, bullet_lines, summary_lines) ==
    IF k > Len(lines) THEN << bullet_lines, summary_lines >>
    ELSE LET ln == lines[k]
         IN  IF IsConclusionLine(ln)
             THEN classify_loop(lines, k + 1, TRUE, bullet_lines, Append(summary_lines, ln))
             ELSE IF ~in_summary
             THEN classify_loop(lines, k + 1, in_summary, Append(bullet_lines, ln), summary_lines)
             ELSE classify_loop(lines, k + 1, in_summary, bullet_lines, Append(summary_lines, ln))

Classify(summary_text) == classify_loop(SummaryLines(summary_text), 1, FALSE, << >>, << >>)

\* The bullet or enumerator prefix removed from one bullet line.
strip_bullet_prefix(ln) ==
    IF StartsWith(ln, << "-", " " >>) THEN LStrip(Slice(ln, 2, Len(ln)))
    ELSE IF IsDigit(Slice(ln, 0, 2)) /\ Slice(ln, 2, 3) \in {<< "." >>, << "dun" >>, << "fdot" >>}
    THEN LStrip(Slice(ln, 3, Len(ln)))
    ELSE ln

\* << title, rest >> of one bullet line, both stripped
title_rest(ln) ==
    LET raw == strip_bullet_prefix(ln)
        pair == IF Contains(raw, << "fcolon" >>) THEN Split1(raw, << "fcolon" >>)
                ELSE IF Contains(raw, << ":" >>) THEN Split1(raw, << ":" >>)
                ELSE << raw, << >> >>
    IN  << Strip(pair[1]), Strip(pair[2]) >>

\* the numbered_list_item block of one bullet line
bullet_block(ln) ==
    LET title == title_rest(ln)[1]
        rest == title_rest(ln)[2]
        prefix == IF title # << >> THEN << "fcolon" >> ELSE << >>
    IN  Block("numbered_list_item",
              (IF title # << >> THEN << Span(title, TRUE) >> ELSE << >>)
              \o (IF rest # << >> THEN << Span(prefix \o rest, FALSE) >> ELSE << >>))

\* the body of the conclusion paragraph
closing_body(summary_lines) ==
    LET summary_body == Join(<< " " >>, summary_lines)
    IN  IF StartsWith(summary_body, CONCLUSION_FULL)
        THEN LStrip(Slice(summary_body, Len(CONCLUSION_FULL), Len(summary_body)))
        ELSE IF StartsWith(summary_body, CONCLUSION_HALF)
        THEN LStrip(Slice(summary_body, Len(CONCLUSION_HALF), Len(summary_body)))
        ELSE summary_body

closing_block(summary_lines) ==
    LET body == closing_body(summary_lines)
    IN  Block("paragraph",
              << Span(CONCLUSION_FULL, TRUE) >>
              \o (IF body # << >> THEN << Span(body, FALSE) >> ELSE << >>))

build_summary_blocks(summary_text) ==
    IF summary_text = << >> THEN << >>
    ELSE LET bullet_lines == Classify(summary_text)[1]
             summary_lines == Classify(summary_text)[2]
         IN  [ix \in DOMAIN bullet_lines |-> bullet_block(bullet_lines[ix])]
             \o (IF summary_lines # << >> THEN << closing_block(summary_lines) >> ELSE << >>)

\* ------------------------------------------ write_summary_and_transcript
\* the heading with a text that does not hold the marker
heading_block_unmarked == Block("heading_2", << Span(<< "zhai", "yao" >>, FALSE) >>)

heading_block == Block("heading_2", << Span(HEADING_MARKER, FALSE) >>)

divider_block == Block("divider", << >>)

\* write_children with the divider put before the summary section
write_children_divider_first(summary_text, transcript_text) ==
    << heading_block, divider_block >>
    \o build_summary_blocks(summary_text)
    \o build_paragraph_blocks(transcript_text)

\* children, as handed to blocks.children.append
write_children(summary_text, transcript_text) ==
    << heading_block >>
    \o build_summary_blocks(summary_text)
    \o << divider_block >>
    \o build_paragraph_blocks(transcript_text)


\* -------------------------------------- the document store, as the code reads it
\* A stored block: its id, type, rich_text (plain_text of a span is its
\* content) and the archived flag blocks.update sets.  blocks.children.list
\* returns the blocks that are not archived, in order, page by page.
Stored(id, type, rich_text) ==
    [id |-> id, type |-> type, rich_text |-> rich_text, archived |-> FALSE]

NotArchived(b) == ~b.archived

Visible(blocks) == SelectSeq(blocks, NotArchived)

\* notion.blocks.children.list(block_id, page_size, start_cursor): one page.
\* The cursor is the number of blocks already returned (0: no start_cursor).
list_children(visible, cursor) ==
    [results |-> SubSeq(visible, cursor + 1, Min(cursor + PAGE_SIZE, Len(visible))),
     has_more |-> cursor + PAGE_SIZE < Len(visible),
     next_cursor |-> cursor + PAGE_SIZE]

HEADING_TYPES == {"heading_1", "heading_2", "heading_3"}

\* the test has_summary_heading makes of one block
is_marked_heading(blk) ==
    /\ blk.type \in HEADING_TYPES
    /\ Contains(PlainText(blk.rich_text), HEADING_MARKER)

\* has_summary_heading: the while loop over the pages, from cursor on
RECURSIVE has_summary_loop(_, _)
has_summary_loop(visible, cursor) ==
    LET resp == list_children(visible, cursor)
    IN  IF \E k \in 1 .. Len(resp.results) : is_marked_heading(resp.results[k]) THEN TRUE
        ELSE IF ~resp.has_more THEN FALSE
        ELSE has_summary_loop(visible, resp.next_cursor)

\* has_summary_heading that reads the first page only (has_more ignored)
has_summary_heading_first_page(blocks) ==
    LET resp == list_children(Visible(blocks), 0)
    IN  \E k \in 1 .. Len(resp.results) : is_marked_heading(resp.results[k])

has_summary_heading(blocks) == has_summary_loop(Visible(blocks), 0)

\* extract_transcript_text: the stripped, non-empty paragraph texts of every
\* page from cursor on
RECURSIVE transcript_parts(_, _)
transcript_parts(visible, cursor) ==
    LET resp == list_children(visible, cursor)
        paras == SelectSeq(resp.results, LAMBDA blk : blk.type = "paragraph")
        here == SelectSeq([ix \in DOMAIN paras |-> LET blk == paras[ix] IN Strip(PlainText(blk.rich_text))],
                          NonEmpty)
    IN  IF ~resp.has_more THEN here
        ELSE here \o transcript_parts(visible, resp.next_cursor)

\* full = "\n".join(parts)
full_transcript(blocks) == Join(<< "\n" >>, transcript_parts(Visible(blocks), 0))

extract_transcript_text(blocks) ==
    LET full == full_transcript(blocks)
    IN  IF Len(full) > MAX_TRANSCRIPT_CHARS THEN Slice(full, 0, MAX_TRANSCRIPT_CHARS)
        ELSE full

\* build_gemini_prompt(title, transcript): a fixed template around both
build_gemini_prompt(title, transcript) == [title |-> title, transcript |-> transcript]

\* ----------------------------------------------- the clean-up in main()
LowerChar(c) ==
    CASE c = "G" -> "g" [] c = "E" -> "e" [] c = "M" -> "m"
      [] c = "I" -> "i" [] c = "N" -> "n" [] OTHER -> c

\* ln.replace(" ", "").lower()
Normalise(ln) ==
    (LET xs == SelectSeq(ln, LAMBDA c : c # " ") IN [ix \in DOMAIN xs |-> LowerChar(xs[ix])])

DENYLIST ==
    { << "ru", "guo", "jue", "de", "zhe", "ge", "zhai", "yao", "you", "bang", "zhu" >>,
      << "ru", "guo", "jue", "de", "you", "bang", "zhu" >>,
      << "huan", "ying", "zai", "ti", "gong", "geng", "duo", "nei", "rong" >>,
      << "nin", "ke", "yi", "zhi", "jie2", "ti", "gong" >>,
      << "hou", "xu", "xing", "dong" >>,
      << "g", "e", "m", "i", "n", "i" >> }

is_boilerplate(ln) == \E key \in DENYLIST : Contains(Normalise(ln), key)

\* summary_cleaned of main()
clean_summary(summary) ==
    LET lines == (LET xs == SplitLines(summary) IN [ix \in DOMAIN xs |-> RStrip(xs[ix])])
        cleaned_lines == SelectSeq(lines, LAMBDA ln : ~is_boilerplate(ln))
    IN  Strip(Join(<< "\n" >>, cleaned_lines))


\* ------------------------------------------------------------- the state
VARIABLES
    store,      \* document id -> its blocks in the store, archived ones included
    loc,        \* process -> the local variables of its invocation of main()
    log,        \* process -> document -> what this invocation did to it (history)
    snapshot,   \* process -> the store as it was when the invocation started (history)
    was_done,   \* document -> an earlier, finished invocation reached Done for it (history)
    run_no,     \* invocations of main() started so far
    call,       \* the pure function applied to args ("none": not yet)
    args,       \* its arguments
    ret         \* its result

vars == << store, loc, log, snapshot, was_done, run_no, call, args, ret >>

orchestrator_vars == << store, loc, log, snapshot, was_done, run_no >>

function_vars == << call, args, ret >>

Docs == 1 .. NumDocs

\* the invocations of the script: the second one runs only where two
\* invocations overlap (SpecOverlap)
Procs == {1, 2}

\* ------------------------------------------------------ initial documents
Plain(t) == << Span(t, FALSE) >>

WithIds(blocks) ==
    [k \in 1 .. Len(blocks) |-> Stored(k, blocks[k].type, blocks[k].rich_text)]

\* Pages as youtube_summary.py leaves them (paragraphs of transcript), pages
\* already summarised, and pages whose marker text sits in other places.
InitDocs ==
    { \* two paragraphs, together longer than MAX_TRANSCRIPT_CHARS
      WithIds(<< Block("paragraph", Plain(<< "a", "a", "a", "a" >>)),
                 Block("paragraph", Plain(<< "b", "b", "b", "b" >>)) >>),
      \* one short paragraph
      WithIds(<< Block("paragraph", Plain(<< "a", "b" >>)) >>),
      \* already summarised
      WithIds(<< Block("heading_2", Plain(HEADING_MARKER)),
                 Block("paragraph", Plain(<< "a", "b" >>)) >>),
      \* no blocks at all
      << >>,
      \* the marker in a heading on the second page, split over two spans
      WithIds(<< Block("paragraph", Plain(<< "a" >>)),
                 Block("paragraph", Plain(<< " " >>)),
                 Block("heading_1", << Span(<< "nei", "rong" >>, FALSE),
                                       Span(<< "zhai", "yao" >>, TRUE) >>) >>),
      \* the marker in a paragraph only
      WithIds(<< Block("heading_3", Plain(<< "a", "b" >>)),
                 Block("paragraph", Plain(HEADING_MARKER)) >>) }

\* What gemini_bot.py may write to its output file.
SUMMARIES ==
    { << "-", " ", "X", "fcolon", "Y", "\n", "zong", "jie", "fcolon", "Z", "\n" >>,
      << "-", " ", "X", "\n", "G", "e", "m", "i", "n", "i" >>,
      << "G", "e", "m", "i", "n", "i", " ", "\n" >>,
      << " ", "\n" >> }

\* run_gemini(prompt): the stripped output ("ok"), a RuntimeError ("fail": a
\* non-zero exit or no output file), or another exception ("crash": OSError
\* from subprocess.run or open).
GeminiOutcomes ==
    {[kind |-> "ok", text |-> Strip(s)] : s \in SUMMARIES}
    \cup {[kind |-> "fail", text |-> << >>], [kind |-> "crash", text |-> << >>]}

\* ------------------------------------------------------- local variables
IdleLoc ==
    [pc |-> "idle", limit_pages |-> 0, pages |-> << >>, idx |-> 0, processed |-> 0,
     transcript |-> << >>, summary_cleaned |-> << >>]

EmptyLog ==
    [outcome |-> "none", full |-> << >>, gemini |-> << >>, archive |-> << >>,
     append |-> 0, children |-> << >>]

\* list_pages(notion, limit): at most limit pages of the database, in search
\* order; the test `len(results) >= limit` follows the append, so that one
\* page is returned also for limit = 0
list_pages(limit) == [k \in 1 .. Min(NumDocs, IF limit < 1 THEN 1 ELSE limit) |-> k]

\* the page the loop of main() is at
Cur(p) == loc[p].pages[loc[p].idx]

\* the loop without `if processed >= limit_pages: break`
NextPage_no_break(L, processed) ==
    [L EXCEPT !.idx = L.idx + 1,
              !.processed = processed,
              !.transcript = << >>,
              !.summary_cleaned = << >>,
              !.pc = IF L.idx + 1 > Len(L.pages) THEN "finished" ELSE "guard"]

\* `continue`, or the end of the loop body: the for statement takes the next
\* page unless the list is exhausted or `processed >= limit_pages` breaks.
\* transcript and summary_cleaned are dead from here on and are cleared.
NextPage(L, processed) ==
    [L EXCEPT !.idx = L.idx + 1,
              !.processed = processed,
              !.transcript = << >>,
              !.summary_cleaned = << >>,
              !.pc = IF L.idx + 1 > Len(L.pages) \/ processed >= L.limit_pages
                     THEN "finished" ELSE "guard"]

\* an exception nothing in main() catches: the process exits
Raise(L) == [L EXCEPT !.pc = "aborted", !.transcript = << >>, !.summary_cleaned = << >>]

Init ==
    /\ store \in [Docs -> InitDocs]
    /\ loc = [p \in Procs |-> IdleLoc]
    /\ log = [p \in Procs |-> [d \in Docs |-> EmptyLog]]
    /\ snapshot = [p \in Procs |-> store]
    /\ was_done = [d \in Docs |-> FALSE]
    /\ run_no = 0
    /\ call = "none"
    /\ args = << >>
    /\ ret = << >>

\* ------------------------------------------------------------ main()
\* main(limit_pages) up to the for statement.
Begin(p, limit) ==
    /\ run_no' = run_no + 1
    /\ loc' = [loc EXCEPT ![p] =
                 [IdleLoc EXCEPT !.pc = IF 0 >= limit THEN "finished" ELSE "guard",
                                 !.limit_pages = limit,
                                 !.pages = list_pages(limit * 3), !.idx = 1]]
    /\ log' = [log EXCEPT ![p] = [d \in Docs |-> EmptyLog]]
    /\ snapshot' = [snapshot EXCEPT ![p] = store]
    /\ was_done' = [d \in Docs |-> was_done[d] \/ log[p][d].outcome = "Done"]
    /\ UNCHANGED << store, function_vars >>

StartRun(p) ==
    /\ loc[p].pc = "idle"
    /\ \E limit \in 0 .. MaxLimit : Begin(p, limit)

\* The script is run again after an invocation has ended.
RunAgain(p) ==
    /\ loc[p].pc \in {"finished", "aborted"}
    /\ run_no < MaxRuns
    /\ \E limit \in 0 .. MaxLimit : Begin(p, limit)

\* the page is being processed by another invocation
Busy(p, d) ==
    \E q \in Procs \ {p} :
        /\ loc[q].pc \in {"fetch", "gemini1", "gemini2", "archive", "append"}
        /\ Cur(q) = d

\* GuardCheck with mutual exclusion: a page another invocation is processing
\* is skipped.
GuardCheck_exclusive(p) ==
    /\ loc[p].pc = "guard"
    /\ \/ /\ loc' = [loc EXCEPT ![p] = Raise(@)]
          /\ log' = [log EXCEPT ![p][Cur(p)].outcome = "Aborted"]
       \/ /\ has_summary_heading(store[Cur(p)]) \/ Busy(p, Cur(p))
          /\ loc' = [loc EXCEPT ![p] = NextPage(@, @.processed)]
          /\ log' = [log EXCEPT ![p][Cur(p)].outcome = "SkippedAlready"]
       \/ /\ ~has_summary_heading(store[Cur(p)]) /\ ~Busy(p, Cur(p))
          /\ loc' = [loc EXCEPT ![p].pc = "fetch"]
          /\ log' = log
    /\ UNCHANGED << store, snapshot, was_done, run_no, function_vars >>

\* has_summary_heading(notion, page_id) and the `continue` on True
GuardCheck(p) ==
    /\ loc[p].pc = "guard"
    /\ \/ \* blocks.children.list raises
          /\ loc' = [loc EXCEPT ![p] = Raise(@)]
          /\ log' = [log EXCEPT ![p][Cur(p)].outcome = "Aborted"]
       \/ /\ has_summary_heading(store[Cur(p)])
          /\ loc' = [loc EXCEPT ![p] = NextPage(@, @.processed)]
          /\ log' = [log EXCEPT ![p][Cur(p)].outcome = "SkippedAlready"]
       \/ /\ ~has_summary_heading(store[Cur(p)])
          /\ loc' = [loc EXCEPT ![p].pc = "fetch"]
          /\ log' = log
    /\ UNCHANGED << store, snapshot, was_done, run_no, function_vars >>

\* extract_transcript_text(notion, page_id) and the `continue` on an empty text
FetchTranscript(p) ==
    /\ loc[p].pc = "fetch"
    /\ \/ \* blocks.children.list raises
          /\ loc' = [loc EXCEPT ![p] = Raise(@)]
          /\ log' = [log EXCEPT ![p][Cur(p)].outcome = "Aborted"]
       \/ LET transcript == extract_transcript_text(store[Cur(p)])
          IN  IF transcript = << >>
              THEN /\ loc' = [loc EXCEPT ![p] = NextPage(@, @.processed)]
                   /\ log' = [log EXCEPT ![p][Cur(p)].outcome = "SkippedNoTranscript"]
              ELSE /\ loc' = [loc EXCEPT ![p].pc = "gemini1", ![p].transcript = transcript]
                   /\ log' = [log EXCEPT ![p][Cur(p)].full = full_transcript(store[Cur(p)])]
    /\ UNCHANGED << store, snapshot, was_done, run_no, function_vars >>

\* one call of run_gemini, as the history records it: its prompt and how it ended
GeminiCall(p, result) ==
    [prompt |-> build_gemini_prompt(Cur(p), loc[p].transcript), result |-> result]

\* AfterSummary without the `continue` after the clean-up left nothing: the
\* page is reported as skipped and the loop body goes on to the archive step.
AfterSummary_no_continue(p, summary) ==
    IF summary = << >>
    THEN /\ loc' = [loc EXCEPT ![p] = NextPage(@, @.processed)]
         /\ log' = [log EXCEPT ![p][Cur(p)].outcome = "EmptySummary",
                               ![p][Cur(p)].gemini = Append(@, GeminiCall(p, "ok"))]
    ELSE /\ loc' = [loc EXCEPT ![p].pc = "archive",
                               ![p].summary_cleaned = clean_summary(summary)]
         /\ log' = [log EXCEPT ![p][Cur(p)].outcome =
                                   IF clean_summary(summary) = << >>
                                   THEN "SkippedEmptyAfterClean" ELSE @,
                               ![p][Cur(p)].gemini = Append(@, GeminiCall(p, "ok"))]

\* main() from a summary run_gemini returned to the archive step: the empty
\* check, the clean-up and the empty check after it
AfterSummary(p, summary) ==
    IF summary = << >>
    THEN /\ loc' = [loc EXCEPT ![p] = NextPage(@, @.processed)]
         /\ log' = [log EXCEPT ![p][Cur(p)].outcome = "EmptySummary",
                               ![p][Cur(p)].gemini = Append(@, GeminiCall(p, "ok"))]
    ELSE IF clean_summary(summary) = << >>
    THEN /\ loc' = [loc EXCEPT ![p] = NextPage(@, @.processed)]
         /\ log' = [log EXCEPT ![p][Cur(p)].outcome = "SkippedEmptyAfterClean",
                               ![p][Cur(p)].gemini = Append(@, GeminiCall(p, "ok"))]
    ELSE /\ loc' = [loc EXCEPT ![p].pc = "archive",
                               ![p].summary_cleaned = clean_summary(summary)]
         /\ log' = [log EXCEPT ![p][Cur(p)].gemini = Append(@, GeminiCall(p, "ok"))]

\* CallGemini without the retry: a first failure skips the page at once.
CallGemini_no_retry(p) ==
    /\ loc[p].pc = "gemini1"
    /\ \E out \in GeminiOutcomes :
          \/ /\ out.kind = "ok"
             /\ AfterSummary(p, out.text)
          \/ /\ out.kind = "fail"
             /\ loc' = [loc EXCEPT ![p] = NextPage(@, @.processed)]
             /\ log' = [log EXCEPT ![p][Cur(p)].outcome = "FailedAfterRetry",
                                   ![p][Cur(p)].gemini = Append(@, GeminiCall(p, "fail"))]
          \/ /\ out.kind = "crash"
             /\ loc' = [loc EXCEPT ![p] = Raise(@)]
             /\ log' = [log EXCEPT ![p][Cur(p)].outcome = "Aborted",
                                   ![p][Cur(p)].gemini = Append(@, GeminiCall(p, "crash"))]
    /\ UNCHANGED << store, snapshot, was_done, run_no, function_vars >>

\* the first run_gemini(prompt), in the outer try
CallGemini(p) ==
    /\ loc[p].pc = "gemini1"
    /\ \E out \in GeminiOutcomes :
          \/ /\ out.kind = "ok"
             /\ AfterSummary(p, out.text)
          \/ /\ out.kind = "fail"
             /\ loc' = [loc EXCEPT ![p].pc = "gemini2"]
             /\ log' = [log EXCEPT ![p][Cur(p)].gemini = Append(@, GeminiCall(p, "fail"))]
          \/ /\ out.kind = "crash"
             /\ loc' = [loc EXCEPT ![p] = Raise(@)]
             /\ log' = [log EXCEPT ![p][Cur(p)].outcome = "Aborted",
                                   ![p][Cur(p)].gemini = Append(@, GeminiCall(p, "crash"))]
    /\ UNCHANGED << store, snapshot, was_done, run_no, function_vars >>

\* the second run_gemini(prompt), in the except clause of the first
RetryGemini(p) ==
    /\ loc[p].pc = "gemini2"
    /\ \E out \in GeminiOutcomes :
          \/ /\ out.kind = "ok"
             /\ AfterSummary(p, out.text)
          \/ /\ out.kind = "fail"
             /\ loc' = [loc EXCEPT ![p] = NextPage(@, @.processed)]
             /\ log' = [log EXCEPT ![p][Cur(p)].outcome = "FailedAfterRetry",
                                   ![p][Cur(p)].gemini = Append(@, GeminiCall(p, "fail"))]
          \/ /\ out.kind = "crash"
             /\ loc' = [loc EXCEPT ![p] = Raise(@)]
             /\ log' = [log EXCEPT ![p][Cur(p)].outcome = "Aborted",
                                   ![p][Cur(p)].gemini = Append(@, GeminiCall(p, "crash"))]
    /\ UNCHANGED << store, snapshot, was_done, run_no, function_vars >>


\* archive_existing_blocks: the blocks after blocks.update(archived=True) was
\* called for each id in attempted and raised for those in failed
archive_blocks(blocks, attempted, failed) ==
    [k \in 1 .. Len(blocks) |->
        IF blocks[k].id \in attempted \ failed
        THEN [blocks[k] EXCEPT !.archived = TRUE]
        ELSE blocks[k]]

Ids(blocks) == {blocks[k].id : k \in 1 .. Len(blocks)}

\* the pages a paginated read of `visible` takes
NumPages(visible) ==
    IF Len(visible) = 0 THEN 1 ELSE (Len(visible) + PAGE_SIZE - 1) \div PAGE_SIZE

\* archive_existing_blocks without the try around blocks.update: the first
\* blocks.update that raises ends the loop and main().
ArchiveOld_stops_at_failure(p) ==
    /\ loc[p].pc = "archive"
    /\ LET visible == Visible(store[Cur(p)])
       IN  \/ /\ store' = [store EXCEPT ![Cur(p)] = archive_blocks(@, Ids(visible), {})]
              /\ log' = [log EXCEPT ![p][Cur(p)].archive = [ix \in DOMAIN visible |-> visible[ix].id]]
              /\ loc' = [loc EXCEPT ![p].pc = "append"]
           \/ \E k \in 1 .. Len(visible) :
                LET read == SubSeq(visible, 1, k)
                IN  /\ store' = [store EXCEPT ![Cur(p)] = archive_blocks(@, Ids(read), {visible[k].id})]
                    /\ log' = [log EXCEPT ![p][Cur(p)].archive = [ix \in DOMAIN read |-> read[ix].id],
                                          ![p][Cur(p)].outcome = "Aborted"]
                    /\ loc' = [loc EXCEPT ![p] = Raise(@)]
    /\ UNCHANGED << snapshot, was_done, run_no, function_vars >>

\* archive_existing_blocks(notion, page_id): page by page, every block of the
\* page in read order; a blocks.update that raises is logged and skipped.  A
\* blocks.children.list that raises ends main(), with the blocks of the pages
\* read before it already attempted.
ArchiveOld(p) ==
    /\ loc[p].pc = "archive"
    /\ LET visible == Visible(store[Cur(p)])
       IN  \/ \E failed \in SUBSET Ids(visible) :
                /\ store' = [store EXCEPT ![Cur(p)] = archive_blocks(@, Ids(visible), failed)]
                /\ log' = [log EXCEPT ![p][Cur(p)].archive = [ix \in DOMAIN visible |-> LET b == visible[ix] IN b.id]]
                /\ loc' = [loc EXCEPT ![p].pc = "append"]
           \/ \E n \in 0 .. NumPages(visible) - 1 :
                LET read == SubSeq(visible, 1, n * PAGE_SIZE)
                IN  \E failed \in SUBSET Ids(read) :
                      /\ store' = [store EXCEPT ![Cur(p)] = archive_blocks(@, Ids(read), failed)]
                      /\ log' = [log EXCEPT ![p][Cur(p)].archive = [ix \in DOMAIN read |-> LET b == read[ix] IN b.id],
                                            ![p][Cur(p)].outcome = "Aborted"]
                      /\ loc' = [loc EXCEPT ![p] = Raise(@)]
    /\ UNCHANGED << snapshot, was_done, run_no, function_vars >>

\* blocks.children.append(block_id, children): the blocks after it succeeded
append_children(blocks, children) ==
    blocks \o [k \in 1 .. Len(children) |->
                 Stored(Len(blocks) + k, children[k].type, children[k].rich_text)]

\* RebuildAndAppend with a rollback: when blocks.children.append raises, the
\* blocks archived by this run are restored.
RebuildAndAppend_rollback(p) ==
    /\ loc[p].pc = "append"
    /\ LET children == write_children(loc[p].summary_cleaned, loc[p].transcript)
       IN  \/ /\ loc' = [loc EXCEPT ![p] = Raise(@)]
              /\ log' = [log EXCEPT ![p][Cur(p)].append = @ + 1,
                                    ![p][Cur(p)].outcome = "Aborted"]
              /\ store' = [store EXCEPT ![Cur(p)] = snapshot[p][Cur(p)]]
           \/ /\ store' = [store EXCEPT ![Cur(p)] = append_children(@, children)]
              /\ log' = [log EXCEPT ![p][Cur(p)].append = @ + 1,
                                    ![p][Cur(p)].children = children,
                                    ![p][Cur(p)].outcome = "Done"]
              /\ loc' = [loc EXCEPT ![p] = NextPage(@, @.processed + 1)]
    /\ UNCHANGED << snapshot, was_done, run_no, function_vars >>

\* write_summary_and_transcript(notion, page_id, summary_cleaned, transcript)
\* and the end of the loop body
RebuildAndAppend(p) ==
    /\ loc[p].pc = "append"
    /\ LET children == write_children(loc[p].summary_cleaned, loc[p].transcript)
       IN  \/ \* blocks.children.append raises
              /\ loc' = [loc EXCEPT ![p] = Raise(@)]
              /\ log' = [log EXCEPT ![p][Cur(p)].append = @ + 1,
                                    ![p][Cur(p)].outcome = "Aborted"]
              /\ store' = store
           \/ /\ store' = [store EXCEPT ![Cur(p)] = append_children(@, children)]
              /\ log' = [log EXCEPT ![p][Cur(p)].append = @ + 1,
                                    ![p][Cur(p)].children = children,
                                    ![p][Cur(p)].outcome = "Done"]
              /\ loc' = [loc EXCEPT ![p] = NextPage(@, @.processed + 1)]
    /\ UNCHANGED << snapshot, was_done, run_no, function_vars >>

\* One invocation of main() at a time: the script is run, and run again.
Next ==
    \E p \in {1} :
        \/ StartRun(p)
        \/ RunAgain(p)
        \/ GuardCheck(p)
        \/ FetchTranscript(p)
        \/ CallGemini(p)
        \/ RetryGemini(p)
        \/ ArchiveOld(p)
        \/ RebuildAndAppend(p)

Spec == Init /\ [][Next]_vars


\* ===================================================== claims about main()
\* the terminal states of one document's run that are not Done
SKIPPED == {"SkippedAlready", "SkippedNoTranscript", "FailedAfterRetry",
            "EmptySummary", "SkippedEmptyAfterClean"}

\* C1: a document whose run ended in a terminal state other than Done
\* (SkippedAlready, SkippedNoTranscript, FailedAfterRetry, empty summary,
\* SkippedEmptyAfterClean) has had no archive call and no append call issued
\* for it in that run, and its blocks are as they were when the run started.
C1_SkippedUntouched ==
    \A p \in Procs : \A d \in Docs :
        log[p][d].outcome \in SKIPPED =>
            /\ log[p][d].archive = << >>
            /\ log[p][d].append = 0
            /\ store[d] = snapshot[p][d]

\* C1 witness: one run skipped a page after two failed summarizer calls and
\* another page after the clean-up left nothing, both pages holding blocks.
C1_Witness ==
    \E p \in Procs : \E d, e \in Docs :
        /\ log[p][d].outcome = "FailedAfterRetry"
        /\ log[p][e].outcome = "SkippedEmptyAfterClean"
        /\ store[d] # << >>
        /\ store[e] # << >>

\* C2: once a run reached Done for a document, the document carries a marked
\* heading, and every later sequential run issues no summarizer call, no
\* archive and no append for it; its guard, when the read succeeds, returns
\* true (SkippedAlready).
C2_ReplacedOnce ==
    \A p \in Procs : \A d \in Docs :
        was_done[d] =>
            /\ has_summary_heading(store[d])
            /\ log[p][d].gemini = << >>
            /\ log[p][d].archive = << >>
            /\ log[p][d].append = 0
            /\ log[p][d].outcome \in {"none", "SkippedAlready", "Aborted"}
            /\ (log[p][d].outcome = "Aborted" => loc[p].pc = "aborted" /\ Cur(p) = d)

\* C2 witness: a later run skipped a page that an earlier run had summarised
\* and that carried no marked heading before.
C2_Witness ==
    \E p \in Procs : \E d \in Docs :
        /\ was_done[d]
        /\ log[p][d].outcome = "SkippedAlready"
        /\ \E k \in 1 .. Len(store[d]) :
              store[d][k].archived /\ store[d][k].type = "paragraph"

\* the position of document d in the page list of p (0: not in it)
PageIndex(p, d) ==
    IF \E k \in 1 .. Len(loc[p].pages) : loc[p].pages[k] = d
    THEN CHOOSE k \in 1 .. Len(loc[p].pages) : loc[p].pages[k] = d
    ELSE 0

\* C4: the summarizer is called at most twice per document, the second call
\* only after a failed first one and with the same prompt; a failed first
\* call is followed by the second; two failures end the document's run as
\* FailedAfterRetry, nothing else does, and the loop is then at a later page
\* (or finished, when there is none).
C4_RetryOnce ==
    \A p \in Procs : \A d \in Docs :
        LET g == log[p][d].gemini
        IN  /\ Len(g) <= 2
            /\ Len(g) = 2 => g[1].result = "fail" /\ g[2].prompt = g[1].prompt
            /\ (Len(g) = 1 /\ g[1].result = "fail") =>
                   loc[p].pc = "gemini2" /\ Cur(p) = d
            /\ (Len(g) = 2 /\ g[2].result = "fail") =>
                   log[p][d].outcome = "FailedAfterRetry"
            /\ log[p][d].outcome = "FailedAfterRetry" =>
                   /\ Len(g) = 2 /\ g[1].result = "fail" /\ g[2].result = "fail"
                   /\ loc[p].idx > PageIndex(p, d)
                   /\ loc[p].idx <= Len(loc[p].pages) =>
                         loc[p].idx = PageIndex(p, d) + 1
                         \/ log[p][loc[p].pages[PageIndex(p, d) + 1]].outcome # "none"

\* C4 witness: the first page of a batch failed twice and the loop is at the
\* second page.
C4_Witness ==
    \E p \in Procs :
        /\ Len(loc[p].pages) >= 2
        /\ log[p][loc[p].pages[1]].outcome = "FailedAfterRetry"
        /\ loc[p].idx = 2
        /\ loc[p].pc = "fetch"

\* C5: no failure while processing one document aborts the processing of the
\* other documents: the run never stops by a failure while pages of its
\* batch are still to be examined.
C5_FailuresScoped ==
    \A p \in Procs :
        ~(loc[p].pc = "aborted" /\ loc[p].idx < Len(loc[p].pages))

\* the blocks after the divider of an appended block list
TranscriptSection(children) ==
    LET dv == CHOOSE k \in 1 .. Len(children) : children[k].type = "divider"
    IN  SubSeq(children, dv + 1, Len(children))

\* C6: the transcript paragraphs of an appended block list are built from the
\* full, untruncated transcript text of the document.
C6_TranscriptUntruncated ==
    \A p \in Procs : \A d \in Docs :
        log[p][d].outcome = "Done" =>
            TranscriptSection(log[p][d].children) = build_paragraph_blocks(log[p][d].full)

\* the ids of a block list, in order
IdSeq(blocks) == [k \in 1 .. Len(blocks) |-> blocks[k].id]

\* C14: archive_existing_blocks attempts every block the paginated read
\* returns, in read order, and a blocks.update that fails stops neither the
\* loop nor the run: the archive step ends at the append step with every
\* visible block attempted, or (only when a read of a page fails) at a page
\* boundary of the read; blocks not attempted are left as they were.
C14_ArchiveFailuresNonFatal ==
    [][\A p \in Procs :
          loc[p].pc = "archive" /\ loc'[p] # loc[p] =>
              LET d == Cur(p)
                  ids == IdSeq(Visible(store[d]))
                  done == log'[p][d].archive
              IN  /\ Len(store'[d]) = Len(store[d])
                  /\ \A k \in 1 .. Len(store[d]) :
                        \/ store'[d][k] = store[d][k]
                        \/ /\ store'[d][k] = [store[d][k] EXCEPT !.archived = TRUE]
                           /\ \E j \in 1 .. Len(done) : done[j] = store[d][k].id
                  /\ \/ loc'[p].pc = "append" /\ done = ids
                     \/ /\ loc'[p].pc = "aborted"
                        /\ \E n \in 0 .. NumPages(Visible(store[d])) - 1 :
                              done = SubSeq(ids, 1, n * PAGE_SIZE)]_vars

\* C14 witness: a run reached Done for a page although an archive call for
\* one of its old blocks had failed: the page holds an old block that was
\* attempted and is not archived, an old block that is, and the new content.
C14_Witness ==
    \E p \in Procs : \E d \in Docs :
        /\ log[p][d].outcome = "Done"
        /\ Len(log[p][d].archive) = Len(snapshot[p][d])
        /\ \E k, j \in 1 .. Len(snapshot[p][d]) :
              /\ ~store[d][k].archived
              /\ store[d][j].archived
        /\ Len(store[d]) = Len(snapshot[p][d]) + Len(log[p][d].children)
        /\ has_summary_heading(store[d])

\* C15: in one document's run every archive call precedes the append call,
\* and nothing is rolled back: an archived block stays archived, and when
\* blocks.children.append fails after the archive step the document holds
\* no new block and no marked heading, its old blocks being archived
\* (those whose archive call succeeded) or as they were.
C15_ArchiveBeforeAppendNoRollback ==
    [][\A p \in Procs : \A d \in Docs :
          /\ log'[p][d].archive # log[p][d].archive => log'[p][d].append = 0
          /\ log'[p][d].append > log[p][d].append =>
                /\ loc[p].pc = "append"
                /\ log[p][d].archive = IdSeq(Visible(snapshot[p][d]))
                /\ log'[p][d].archive = log[p][d].archive
          /\ \A k \in 1 .. Len(store[d]) :
                store[d][k].archived =>
                    k <= Len(store'[d]) /\ store'[d][k].archived
          /\ (log'[p][d].append > log[p][d].append /\ log'[p][d].outcome = "Aborted") =>
                /\ store'[d] = store[d]
                /\ Len(store'[d]) = Len(snapshot[p][d])
                /\ ~has_summary_heading(store'[d])]_vars

\* C15 witness: the append call failed after every old block had been
\* archived: the page shows neither its old content nor the new one.
C15_Witness ==
    \E p \in Procs : \E d \in Docs :
        /\ log[p][d].outcome = "Aborted"
        /\ log[p][d].append = 1
        /\ Visible(snapshot[p][d]) # << >>
        /\ Len(log[p][d].archive) = Len(Visible(snapshot[p][d]))
        /\ Visible(store[d]) = << >>

\* C17: in a run with limit_pages = n the counter `processed` counts exactly
\* the documents that reached Done in this run, never exceeds n, and once it
\* equals n the loop has stopped and the remaining candidates are not
\* examined; at most n documents had archive or append calls in the run.
C17_ProcessedWithinLimit ==
    \A p \in Procs :
        LET L == loc[p]
            done == {d \in Docs : log[p][d].outcome = "Done"}
            touched == {d \in Docs : log[p][d].archive # << >> \/ log[p][d].append > 0}
        IN  /\ L.processed = Cardinality(done)
            /\ L.processed <= L.limit_pages
            /\ Cardinality(touched) <= L.limit_pages
            /\ (L.pc # "idle" /\ L.processed = L.limit_pages) =>
                  /\ L.pc = "finished"
                  /\ \A k \in L.idx .. Len(L.pages) : log[p][L.pages[k]] = EmptyLog

\* C17 witness: with limit_pages = 1 the first candidate was skipped without
\* counting, the second reached Done, or the first reached Done and the
\* second, which had no summary yet, was not examined.
C17_Witness ==
    \E p \in Procs :
        /\ loc[p].limit_pages = 1
        /\ Len(loc[p].pages) = 2
        /\ loc[p].pc = "finished"
        /\ loc[p].processed = 1
        /\ log[p][loc[p].pages[1]].outcome = "Done"
        /\ log[p][loc[p].pages[2]] = EmptyLog
        /\ ~has_summary_heading(store[loc[p].pages[2]])
        /\ extract_transcript_text(store[loc[p].pages[2]]) # << >>

\* C17 witness, second case: a skipped candidate did not count.
C17_WitnessSkip ==
    \E p \in Procs :
        /\ loc[p].limit_pages = 1
        /\ log[p][loc[p].pages[1]].outcome = "FailedAfterRetry"
        /\ log[p][loc[p].pages[2]].outcome = "Done"
        /\ loc[p].processed = 1


\* ====================================================== overlapping runs
\* Two invocations of the script at the same time (two cron runs, or a
\* manual run during a cron run), each run once.  The most recent page holds
\* a transcript and no summary yet, the older pages are summarised already.
OverlapDocs ==
    [d \in Docs |->
        IF d = 1
        THEN WithIds(<< Block("paragraph", Plain(<< "a", "b" >>)) >>)
        ELSE WithIds(<< Block("heading_2", Plain(HEADING_MARKER)),
                        Block("paragraph", Plain(<< "a", "b" >>)) >>)]

InitOverlap ==
    /\ store = OverlapDocs
    /\ loc = [p \in Procs |-> IdleLoc]
    /\ log = [p \in Procs |-> [d \in Docs |-> EmptyLog]]
    /\ snapshot = [p \in Procs |-> store]
    /\ was_done = [d \in Docs |-> FALSE]
    /\ run_no = 0
    /\ call = "none"
    /\ args = << >>
    /\ ret = << >>

NextOverlap ==
    \E p \in Procs :
        \/ StartRun(p)
        \/ GuardCheck(p)
        \/ FetchTranscript(p)
        \/ CallGemini(p)
        \/ RetryGemini(p)
        \/ ArchiveOld(p)
        \/ RebuildAndAppend(p)

SpecOverlap == InitOverlap /\ [][NextOverlap]_vars

\* the visible blocks of a page that are marked headings
MarkedHeadings(blocks) == SelectSeq(Visible(blocks), is_marked_heading)

\* C16: the guard gives no mutual exclusion between overlapping runs: what
\* GuardCheck does for a page is decided by the page's blocks at the moment
\* of the read alone (a marked heading: skip; none: go on to process it),
\* wherever another run is with the same page.
C16_GuardNoExclusion ==
    [][\A p \in Procs :
          loc[p].pc = "guard" /\ loc'[p] # loc[p] =>
              \/ loc'[p].pc = "aborted"
              \/ /\ has_summary_heading(store[Cur(p)])
                 /\ loc'[p] = NextPage(loc[p], loc[p].processed)
              \/ /\ ~has_summary_heading(store[Cur(p)])
                 /\ loc'[p].pc = "fetch"]_vars

\* C16 witness: two overlapping runs both passed the guard of the same page
\* before either had changed it, and both archived and appended: the page
\* holds two summaries.
C16_Witness ==
    \E d \in Docs :
        /\ \A p \in Procs :
              /\ log[p][d].outcome = "Done"
              /\ log[p][d].archive # << >>
              /\ log[p][d].append = 1
        /\ Len(MarkedHeadings(store[d])) = 2


\* ================================================ the pure functions, applied
\* Each specification below draws the arguments of one function from a
\* bounded set and applies the function once; main() stays idle.
MainIdle ==
    /\ store = [d \in Docs |-> << >>]
    /\ loc = [p \in Procs |-> IdleLoc]
    /\ log = [p \in Procs |-> [d \in Docs |-> EmptyLog]]
    /\ snapshot = [p \in Procs |-> store]
    /\ was_done = [d \in Docs |-> FALSE]
    /\ run_no = 0

\* ------------------------------------------------------ md_to_rich_text
MdTexts == SeqsUpTo({"a", "b", "*"}, MaxMdLen)

InitMd ==
    /\ MainIdle
    /\ call = "none"
    /\ args \in MdTexts
    /\ ret = << >>

\* parts = md_to_rich_text(text)
CallMd ==
    /\ call = "none"
    /\ call' = "md_to_rich_text"
    /\ ret' = md_to_rich_text(args)
    /\ UNCHANGED << args, orchestrator_vars >>

NextMd == CallMd

SpecMd == InitMd /\ [][NextMd]_vars

\* the text with every "**", matched left to right, removed
RECURSIVE WithoutDelims(_)
WithoutDelims(t) ==
    IF Len(t) < 2 THEN t
    ELSE IF t[1] = "*" /\ t[2] = "*" THEN WithoutDelims(SubSeq(t, 3, Len(t)))
    ELSE << t[1] >> \o WithoutDelims(Tail(t))

\* C10: the contents of the spans md_to_rich_text returns, concatenated, are
\* the input with every "**" delimiter (matched left to right) removed and
\* nothing else removed.
C10_SpansReconstruct ==
    call = "md_to_rich_text" => PlainText(ret) = WithoutDelims(args)

\* C11: md_to_rich_text returns no span for the empty text, and for every
\* non-empty text without a "**" delimiter exactly one span whose content
\* is the text and whose bold is false.
C11_EmptyAndPlain ==
    call = "md_to_rich_text" =>
        /\ (args = << >> => ret = << >>)
        /\ (args # << >> /\ ~Contains(args, DELIM) => ret = << Span(args, FALSE) >>)


\* ------------------------------------------------ build_paragraph_blocks
SegTexts == SeqsUpTo({"a", "b", "\n"}, MaxSegLen)

InitSegment ==
    /\ MainIdle
    /\ call = "none"
    /\ args \in [text : SegTexts, chunk_size : 1 .. MaxChunk]
    /\ ret = << >>

\* append_translated_transcript.py: build_paragraph_blocks(text, chunk_size)
CallTranslatedParagraphs ==
    /\ call = "none"
    /\ call' = "translated_build_paragraph_blocks"
    /\ ret' = translated_build_paragraph_blocks(args.text, args.chunk_size)
    /\ UNCHANGED << args, orchestrator_vars >>

\* youtube_notion_summarizer.py: build_paragraph_blocks(text), whose chunk
\* size is CHUNK_SIZE
CallParagraphs ==
    /\ call = "none"
    /\ args.chunk_size = CHUNK_SIZE
    /\ call' = "build_paragraph_blocks"
    /\ ret' = build_paragraph_blocks(args.text)
    /\ UNCHANGED << args, orchestrator_vars >>

NextSegment == CallTranslatedParagraphs \/ CallParagraphs

SpecSegment == InitSegment /\ [][NextSegment]_vars

\* The pieces of a text between its blank lines, read character by character.
RECURSIVE BlankLinePieces(_, _)
BlankLinePieces(t, piece) ==
    IF t = << >> THEN << piece >>
    ELSE IF Len(t) >= 2 /\ t[1] = "\n" /\ t[2] = "\n"
    THEN << piece >> \o BlankLinePieces(SubSeq(t, 3, Len(t)), << >>)
    ELSE BlankLinePieces(Tail(t), Append(piece, t[1]))

\* t without the whitespace at its ends: the longest sub-sequence of t that
\* neither starts nor ends with whitespace and has only whitespace around it
Trimmed(t) ==
    IF \A k \in 1 .. Len(t) : t[k] \in WS THEN << >>
    ELSE LET first == CHOOSE i \in 1 .. Len(t) :
                        t[i] \notin WS /\ \A k \in 1 .. i - 1 : t[k] \in WS
             last == CHOOSE j \in 1 .. Len(t) :
                        t[j] \notin WS /\ \A k \in j + 1 .. Len(t) : t[k] \in WS
         IN  SubSeq(t, first, last)

\* the non-empty trimmed paragraphs of a text, in source order
TrimmedParagraphs(text) ==
    SelectSeq((LET xs == BlankLinePieces(text, << >>) IN [ix \in DOMAIN xs |-> Trimmed(xs[ix])]), NonEmpty)

CeilDiv(a, b) == (a + b - 1) \div b

\* the ceil(L/n) consecutive slices of a paragraph
SlicesOf(para, n) ==
    [k \in 1 .. CeilDiv(Len(para), n) |->
        SubSeq(para, (k - 1) * n + 1, Min(k * n, Len(para)))]

RECURSIVE SumSeq(_)
SumSeq(ns) == IF ns = << >> THEN 0 ELSE Head(ns) + SumSeq(Tail(ns))

\* the chunk size the applied function used
UsedChunkSize == IF call = "build_paragraph_blocks" THEN CHUNK_SIZE ELSE args.chunk_size

\* C9: for every text and chunk size N >= 1 the segmenter emits, for each
\* non-empty trimmed blank-line-delimited paragraph of length L in source
\* order, exactly ceil(L/N) consecutive chunks of length at most N whose
\* concatenation is that paragraph; chunks of different paragraphs are never
\* merged, and empty text yields no chunks.
C9_SegmenterChunks ==
    call \in {"translated_build_paragraph_blocks", "build_paragraph_blocks"} =>
        LET n == UsedChunkSize
            paras == TrimmedParagraphs(args.text)
            chunks == [ix \in DOMAIN ret |-> LET blk == ret[ix] IN PlainText(blk.rich_text)]
        IN  /\ \A k \in 1 .. Len(ret) : ret[k].type = "paragraph"
            /\ \A k \in 1 .. Len(chunks) : Len(chunks[k]) >= 1 /\ Len(chunks[k]) <= n
            /\ Len(chunks) = SumSeq([ix \in DOMAIN paras |-> LET para == paras[ix] IN CeilDiv(Len(para), n)])
            /\ chunks = FlattenSeq([ix \in DOMAIN paras |-> LET para == paras[ix] IN SlicesOf(para, n)])
            /\ args.text = << >> => ret = << >>

\* C9 witness: two paragraphs, the first longer than the chunk size and cut in
\* two, the second in one chunk of its own.
C9_Witness ==
    /\ call = "translated_build_paragraph_blocks"
    /\ args.chunk_size = 2
    /\ Len(TrimmedParagraphs(args.text)) = 2
    /\ Len(TrimmedParagraphs(args.text)[1]) = 3
    /\ Len(ret) = 3
    /\ PlainText(ret[3].rich_text) = TrimmedParagraphs(args.text)[2]

\* C9 witness of the other copy: youtube_notion_summarizer.py cut a paragraph
\* longer than CHUNK_SIZE in two.
C9_WitnessMain ==
    /\ call = "build_paragraph_blocks"
    /\ Len(TrimmedParagraphs(args.text)) = 1
    /\ Len(ret) = 2


\* --------------------------------------------------- has_summary_heading
\* Blocks a page can hold: marked and unmarked headings of the three levels,
\* the marker inside longer heading text and split over spans, a heading
\* with a part of the marker only, and the marker in blocks that are no
\* headings.
GuardBlocks ==
    { Block("heading_2", Plain(HEADING_MARKER)),
      Block("heading_1", << Span(<< "x", "nei", "rong" >>, FALSE),
                            Span(<< "zhai", "yao", "y" >>, TRUE) >>),
      Block("heading_3", Plain(<< "nei", "rong", "zhai" >>)),
      Block("heading_2", << >>),
      Block("paragraph", Plain(HEADING_MARKER)),
      Block("paragraph", Plain(<< "a" >>)),
      Block("numbered_list_item", Plain(HEADING_MARKER)),
      Block("divider", << >>) }

\* the blocks of a page, some of them archived earlier
GuardPages ==
    { [k \in 1 .. Len(bs) |->
          [id |-> k, type |-> bs[k].type, rich_text |-> bs[k].rich_text,
           archived |-> k \in gone]] :
      bs \in SeqsUpTo(GuardBlocks, MaxBlocks), gone \in {{}, {1}} }

InitGuard ==
    /\ MainIdle
    /\ call = "none"
    /\ args \in GuardPages
    /\ ret = FALSE

\* has_summary_heading(notion, page_id) on a page holding the blocks args
CallGuard ==
    /\ call = "none"
    /\ call' = "has_summary_heading"
    /\ ret' = has_summary_heading(args)
    /\ UNCHANGED << args, orchestrator_vars >>

NextGuard == CallGuard

SpecGuard == InitGuard /\ [][NextGuard]_vars

\* t occurs in text
Occurs(t, text) ==
    \E i \in 0 .. Len(text) - Len(t) : \A k \in 1 .. Len(t) : text[i + k] = t[k]

\* the indices of the current (not archived) blocks of a page
Current(blocks) == {k \in 1 .. Len(blocks) : ~blocks[k].archived}

\* C3: has_summary_heading returns true if and only if, over all pages of the
\* read of the document's current blocks, at least one heading block's
\* concatenated span text contains the marker; a document with only
\* paragraph blocks yields false, and marker text in blocks that are no
\* headings never yields true.
C3_GuardIffMarkedHeading ==
    call = "has_summary_heading" =>
        /\ ret = (\E k \in Current(args) :
                     /\ args[k].type \in {"heading_1", "heading_2", "heading_3"}
                     /\ Occurs(HEADING_MARKER, PlainText(args[k].rich_text)))
        /\ (\A k \in Current(args) : args[k].type = "paragraph") => ret = FALSE
        /\ (\A k \in Current(args) :
               args[k].type \notin {"heading_1", "heading_2", "heading_3"}) => ret = FALSE

\* C3 witness: the only marked heading is the third current block, on the
\* second page of the read, with the marker split over two spans, and the
\* first page holds the marker in a paragraph.
C3_Witness ==
    /\ call = "has_summary_heading"
    /\ ret = TRUE
    /\ Len(args) = 3
    /\ Current(args) = {1, 2, 3}
    /\ args[1].type = "paragraph" /\ PlainText(args[1].rich_text) = HEADING_MARKER
    /\ args[2].type = "divider"
    /\ args[3].type = "heading_1" /\ Len(args[3].rich_text) = 2


\* ------------------------------------------ write_summary_and_transcript
\* Lines a cleaned summary can hold (stripped, not empty, no boilerplate):
\* bullets with and without a title, an enumerated line, a bullet longer than
\* CHUNK_SIZE, and conclusion lines with either colon.
SummaryLineLib ==
    { << "-", " ", "X", "fcolon", "Y" >>,
      << "X" >>,
      << "1", "2", ".", "X", ":", "Y" >>,
      << "-", " ", "a", "a", "a", "a", "a" >>,
      << "zong", "jie", "fcolon", "Z" >>,
      << "zong", "jie", ":" >> }

\* summary_cleaned: one to MaxLines such lines
CleanedSummaries ==
    {Join(<< "\n" >>, ls) : ls \in SeqsUpTo(SummaryLineLib, MaxLines) \ {<< >>}}

\* transcript: not empty and starting with no whitespace, as
\* extract_transcript_text returns it
Transcripts ==
    {t \in SeqsUpTo({"a", "\n"}, MaxTranscriptLen) : t # << >> /\ t[1] \notin WS}

InitBlocks ==
    /\ MainIdle
    /\ call = "none"
    /\ args \in [summary_text : CleanedSummaries, transcript_text : Transcripts]
    /\ ret = << >>

\* the children write_summary_and_transcript hands to blocks.children.append
CallWrite ==
    /\ call = "none"
    /\ call' = "write_summary_and_transcript"
    /\ ret' = write_children(args.summary_text, args.transcript_text)
    /\ UNCHANGED << args, orchestrator_vars >>

NextBlocks == CallWrite

SpecBlocks == InitBlocks /\ [][NextBlocks]_vars

\* C7: every block of the appended sequence carries text of total length at
\* most the chunk ceiling (1500 in the source), for every cleaned summary and
\* every transcript.
C7_EveryBlockWithinCeiling ==
    call = "write_summary_and_transcript" =>
        \A k \in 1 .. Len(ret) : Len(PlainText(ret[k].rich_text)) <= CHUNK_SIZE

\* the non-empty trimmed lines of a summary
TrimmedLines(summary_text) ==
    SelectSeq((LET xs == SplitLines(summary_text) IN [ix \in DOMAIN xs |-> Trimmed(xs[ix])]), NonEmpty)

\* the index of the first line that starts with the conclusion marker
\* (the number of lines plus one when there is none)
FirstConclusion(lines) ==
    IF \E k \in 1 .. Len(lines) : IsConclusionLine(lines[k])
    THEN CHOOSE k \in 1 .. Len(lines) :
            IsConclusionLine(lines[k]) /\ \A j \in 1 .. k - 1 : ~IsConclusionLine(lines[j])
    ELSE Len(lines) + 1

\* The appended sequence is: the marked heading; one numbered item per
\* highlight line, in line order; the conclusion paragraph when closing is
\* true; the divider; the transcript paragraphs in chunk order.
InFixedOrder(children, summary_text, transcript_text, closing) ==
    LET lines == TrimmedLines(summary_text)
        h == FirstConclusion(lines) - 1
        c == IF closing THEN 1 ELSE 0
        chunks == Segment(transcript_text, CHUNK_SIZE)
    IN  /\ Len(children) = 1 + h + c + 1 + Len(chunks)
        /\ children[1].type = "heading_2"
        /\ PlainText(children[1].rich_text) = HEADING_MARKER
        /\ \A k \in 1 .. h :
              /\ children[1 + k].type = "numbered_list_item"
              /\ children[1 + k] = bullet_block(lines[k])
        /\ closing =>
              /\ children[1 + h + 1].type = "paragraph"
              /\ children[1 + h + 1].rich_text[1] = Span(CONCLUSION_FULL, TRUE)
        /\ children[1 + h + c + 1].type = "divider"
        /\ \A k \in 1 .. Len(chunks) :
              /\ children[1 + h + c + 1 + k].type = "paragraph"
              /\ children[1 + h + c + 1 + k].rich_text = md_to_rich_text(chunks[k])

\* C8 as claimed: the appended sequence always is the heading, the numbered
\* items, the conclusion paragraph, the divider and the transcript
\* paragraphs, in this order.
C8_OrderWithClosingAlways ==
    call = "write_summary_and_transcript" =>
        InFixedOrder(ret, args.summary_text, args.transcript_text, TRUE)

\* C8 as amended: the appended sequence is the heading, one numbered item per
\* highlight line in line order, the conclusion paragraph exactly when a
\* line of the summary starts with the conclusion marker, the divider, and
\* the transcript paragraphs in chunk order.
C8_FixedOrder ==
    call = "write_summary_and_transcript" =>
        InFixedOrder(ret, args.summary_text, args.transcript_text,
                     \E k \in 1 .. Len(TrimmedLines(args.summary_text)) :
                         IsConclusionLine(TrimmedLines(args.summary_text)[k]))

\* C8 witness: two highlight lines, a conclusion and a transcript of two
\* chunks were assembled.
C8_Witness ==
    /\ call = "write_summary_and_transcript"
    /\ Len(ret) = 7
    /\ ret[2].type = "numbered_list_item"
    /\ ret[3].type = "numbered_list_item"
    /\ ret[2] # ret[3]
    /\ ret[4].type = "paragraph"
    /\ ret[5].type = "divider"
    /\ ret[6] # ret[7]

\* ------------------------------------------------- build_summary_blocks
\* single lines over the characters the prefix removal looks at
SummaryLineTexts == SeqsUpTo({"-", " ", "1", ".", "X", "fcolon"}, MaxLineLen)

ClassifierLineLib ==
    { << "-", " ", "X", "fcolon", "Y" >>,
      << "-", " ", "Z" >>,
      << "1", ".", "X" >>,
      << "zong", "jie", "fcolon", " ", "A" >>,
      << "zong", "jie", ":", "zong", "jie", "fcolon", "B" >>,
      << "D" >> }

\* summary_text: one line character by character, or up to MaxLines lines
SummaryTexts ==
    SummaryLineTexts
    \cup {Join(<< "\n" >>, ls) : ls \in SeqsUpTo(ClassifierLineLib, MaxLines)}

InitSummary ==
    /\ MainIdle
    /\ call = "none"
    /\ args \in SummaryTexts
    /\ ret = << >>

\* blocks = build_summary_blocks(summary_text)
CallSummaryBlocks ==
    /\ call = "none"
    /\ call' = "build_summary_blocks"
    /\ ret' = build_summary_blocks(args)
    /\ UNCHANGED << args, orchestrator_vars >>

NextSummary == CallSummaryBlocks

SpecSummary == InitSummary /\ [][NextSummary]_vars

\* a line begins with a digit followed by ".", "、" or "．"
HasEnumeratorPrefix(t) ==
    Len(t) >= 2 /\ t[1] \in DIGITS /\ t[2] \in {".", "dun", "fdot"}

\* a line begins with "- "
HasBulletPrefix(t) == Len(t) >= 2 /\ t[1] = "-" /\ t[2] = " "

\* the title of a numbered item: its bold span, if it has one
TitleOf(blk) ==
    IF blk.rich_text # << >> /\ blk.rich_text[1].bold THEN blk.rich_text[1].content
    ELSE << >>

\* C12: every highlight line that begins with an enumerator prefix (a digit
\* followed by ".", "、" or "．") or with the bullet prefix "- " has the
\* prefix removed before the title/body split: the title of its numbered
\* item starts with neither an enumerator nor the bullet.
C12_PrefixRemoved ==
    call = "build_summary_blocks" =>
        LET lines == TrimmedLines(args)
            h == FirstConclusion(lines) - 1
        IN  \A k \in 1 .. h :
                HasEnumeratorPrefix(lines[k]) \/ HasBulletPrefix(lines[k]) =>
                    /\ k <= Len(ret)
                    /\ ~HasEnumeratorPrefix(TitleOf(ret[k]))
                    /\ ~HasBulletPrefix(TitleOf(ret[k]))

\* the closing body: the lines joined by one space, the marker at the
\* front removed once, leading whitespace trimmed
ExpectedClosing(ls) ==
    LET joined == Join(<< " " >>, ls)
    IN  LStrip(SubSeq(joined, Len(CONCLUSION_FULL) + 1, Len(joined)))

=============================================================================
